---- MODULE Spec2Model ----
(***************************************************************************)
(* The user CRUD pipeline of api-crud-postgres: the routes of              *)
(* src/routes/userRoutes.js, the Joi validators of                         *)
(* src/middlewares/inputValidator.js, the five services of                 *)
(* src/models/userModel.js over the users table, and the terminal error    *)
(* handler of src/middlewares/errorHandler.js.                             *)
(*                                                                         *)
(* Strings the code inspects (names, emails, the :id path parameter) are   *)
(* sequences of one-character strings, so that length, e-mail format and   *)
(* integer parsing are computed rather than assumed.                       *)
(*                                                                         *)
(* controller/userController.js, config/db.js and data/createUserTable.js  *)
(* are not among the sources.  The handlers are modelled from sections 4.3 *)
(* and 7 of the specification; the table's constraints are those of the    *)
(* CREATE TABLE statement quoted in the project analysis.                  *)
(***************************************************************************)
EXTENDS Integers, Sequences, FiniteSets, TLC

(* ------------------------------ bounds --------------------------------- *)

\* Values the users_id_seq sequence may hand out before the model stops
\* accepting creates.
MaxId == 2

\* Distinct values NOW() may take.
MaxTime == 1

\* Requests whose query is in flight at the same time.
MaxInFlight == 2

(* --------------------------- values and inputs ------------------------- *)

\* A property missing from a JSON body or from an object (undefined).  Not a
\* string of characters: its one element is no character.  Messages are
\* one-element sequences holding the whole text.
Absent == <<"undefined">>

\* SQL NULL: what node-postgres sends for an undefined parameter.
Null == <<"NULL">>

None == "none"

Ann == <<"A", "n", "n">>
Bob == <<"B", "o", "b">>
Al == <<"A", "l">>

AnnMail == <<"a", "@", "x", ".", "c", "o", "m">>
BobMail == <<"b", "@", "x", ".", "c", "o", "m">>
BadMail == <<"a", "x", ".", "c", "o", "m">>

Names == {Ann, Bob}

Emails == {AnnMail, BobMail}

\* Request bodies: every combination of a present or missing name and email
\* the schemas accept, and one body for each format rule.
Bodies ==
  [name : Names \cup {Absent}, email : Emails \cup {Absent}]
    \cup {[name |-> Al, email |-> AnnMail], [name |-> Ann, email |-> BadMail]}

EmptyBody == [name |-> Absent, email |-> Absent]

\* Values of the :id path parameter: "1", "2", "0", "abc", "-1".
IdParams ==
  {<<"1">>, <<"2">>, <<"0">>, <<"a", "b", "c">>, <<"-", "1">>}

NoId == <<>>

Timestamps == 1..MaxTime

Slots == 1..MaxInFlight

(* ------------------------------ the table ------------------------------ *)

VARIABLES
  users,      \* the rows of table users
  seq,        \* the next value of the SERIAL sequence behind users.id
  inflight,   \* per slot, the request whose query the pool has not answered
  last,       \* the exchange completed last: request, response, trace flags
  issued,     \* ids returned by a successful INSERT so far
  deleted     \* ids for which a delete has answered 200 so far

vars == <<users, seq, inflight, last, issued, deleted>>

\* SQLSTATE codes of the constraint violations.
UniqueViolation == "23505"

NotNullViolation == "23502"

Ok == "ok"

\* id SERIAL PRIMARY KEY, name NOT NULL, email UNIQUE NOT NULL,
\* created_at DEFAULT NOW().
EmailTaken(tbl, email, self) ==
  \E r \in tbl : r.email = email /\ r.id # self

RowWithId(tbl, id) ==
  {r \in tbl : r.id = id}

\* undefined is sent as NULL.
Param(v) ==
  IF v = Absent THEN Null ELSE v

\* The INSERT against a table whose email column is not UNIQUE.
PgInsertNoUnique(tbl, sq, name, email, now) ==
  LET row == [id |-> sq, name |-> Param(name), email |-> Param(email),
              created_at |-> now]
  IN IF Param(name) = Null \/ Param(email) = Null
       THEN [code |-> NotNullViolation, rows |-> {}, tbl |-> tbl, sq |-> sq + 1]
       ELSE [code |-> Ok, rows |-> {row}, tbl |-> tbl \cup {row}, sq |-> sq + 1]

\* The INSERT with an id computed from the number of rows instead of drawn
\* from the sequence.
PgInsertReuseId(tbl, sq, name, email, now) ==
  LET id == Cardinality(tbl) + 1
      row == [id |-> id, name |-> Param(name), email |-> Param(email),
              created_at |-> now]
  IN IF Param(name) = Null \/ Param(email) = Null
       THEN [code |-> NotNullViolation, rows |-> {}, tbl |-> tbl, sq |-> sq + 1]
       ELSE IF EmailTaken(tbl, Param(email), 0) \/ RowWithId(tbl, id) # {}
         THEN [code |-> UniqueViolation, rows |-> {}, tbl |-> tbl, sq |-> sq + 1]
         ELSE [code |-> Ok, rows |-> {row}, tbl |-> tbl \cup {row}, sq |-> sq + 1]

\* INSERT INTO users (name, email) VALUES ($1, $2) RETURNING *
\* The sequence value is consumed before the constraints are checked.
PgInsert(tbl, sq, name, email, now) ==
  LET row == [id |-> sq, name |-> Param(name), email |-> Param(email),
              created_at |-> now]
  IN IF Param(name) = Null \/ Param(email) = Null
       THEN [code |-> NotNullViolation, rows |-> {}, tbl |-> tbl, sq |-> sq + 1]
       ELSE IF EmailTaken(tbl, Param(email), 0)
         THEN [code |-> UniqueViolation, rows |-> {}, tbl |-> tbl, sq |-> sq + 1]
         ELSE [code |-> Ok, rows |-> {row}, tbl |-> tbl \cup {row}, sq |-> sq + 1]

\* SELECT * FROM users
PgSelectAll(tbl) ==
  [code |-> Ok, rows |-> tbl, tbl |-> tbl]

\* SELECT * FROM users WHERE id = $1
PgSelectById(tbl, id) ==
  [code |-> Ok, rows |-> RowWithId(tbl, id), tbl |-> tbl]

\* UPDATE users SET name = $1, email = $2 WHERE id = $3 RETURNING *
\* Both columns are assigned, whatever the body held.  With no matching row
\* nothing is assigned and no constraint is checked.
PgUpdate(tbl, name, email, id) ==
  LET old == RowWithId(tbl, id)
      new == {[r EXCEPT !.name = Param(name), !.email = Param(email)] : r \in old}
  IN IF old = {}
       THEN [code |-> Ok, rows |-> {}, tbl |-> tbl]
       ELSE IF Param(name) = Null \/ Param(email) = Null
         THEN [code |-> NotNullViolation, rows |-> {}, tbl |-> tbl]
         ELSE IF EmailTaken(tbl, Param(email), id)
           THEN [code |-> UniqueViolation, rows |-> {}, tbl |-> tbl]
           ELSE [code |-> Ok, rows |-> new, tbl |-> (tbl \ old) \cup new]

\* A statement that returns the row and leaves it in the table.
PgDeleteKeepsRow(tbl, id) ==
  [code |-> Ok, rows |-> RowWithId(tbl, id), tbl |-> tbl]

\* DELETE FROM users WHERE id = $1 RETURNING *
PgDelete(tbl, id) ==
  [code |-> Ok, rows |-> RowWithId(tbl, id), tbl |-> tbl \ RowWithId(tbl, id)]

(* ------------------------------ services ------------------------------- *)

\* What a service hands back to its caller: the rows of its result, or the
\* error it throws, and the table (and sequence) the statement leaves.  An
\* error carries the properties the error handler reads: status (NoStatus
\* when the property is not set) and message.
NoStatus == 0

Settle(q, err) ==
  [threw |-> q.code # Ok, rows |-> q.rows, err |-> err, tbl |-> q.tbl]

\* The error node-postgres raises for a failed statement: it has a code and
\* a message, and no status.
PgError(code) ==
  [status |-> NoStatus, message |-> <<code>>]

ConflictMessage == <<"Email already exists">>

\* createUserService without the branch on error.code: every error is thrown
\* as node-postgres raised it.
createUserServiceRethrows(tbl, sq, name, email, now) ==
  LET q == PgInsert(tbl, sq, name, email, now)
  IN [threw |-> q.code # Ok, rows |-> q.rows, err |-> PgError(q.code),
      tbl |-> q.tbl, sq |-> q.sq]

\* A unique violation is thrown again as an error of status 409; any other
\* error is thrown as it is.
createUserService(tbl, sq, name, email, now) ==
  LET q == PgInsert(tbl, sq, name, email, now)
      err == IF q.code = UniqueViolation
               THEN [status |-> 409, message |-> ConflictMessage]
               ELSE PgError(q.code)
  IN [threw |-> q.code # Ok, rows |-> q.rows, err |-> err, tbl |-> q.tbl,
      sq |-> q.sq]

getAllUsersService(tbl) ==
  LET q == PgSelectAll(tbl)
  IN Settle(q, PgError(q.code))

getUserByIdService(tbl, id) ==
  LET q == PgSelectById(tbl, id)
  IN Settle(q, PgError(q.code))

\* No try/catch: every failure of the statement is thrown as it is.
updateUserService(tbl, id, name, email) ==
  LET q == PgUpdate(tbl, name, email, id)
  IN Settle(q, PgError(q.code))

deleteUserService(tbl, id) ==
  LET q == PgDelete(tbl, id)
  IN Settle(q, PgError(q.code))

(* ----------------------------- validation ------------------------------ *)

\* Joi reports the first rule violated (abortEarly) and checks the keys in
\* the order the schema lists them.
NoError == <<>>

MinNameLength == 3

AtSigns(e) ==
  {i \in 1..Len(e) : e[i] = "@"}

\* Joi.string().email(): one "@", a local part, and a domain of at least two
\* non-empty segments.
IsEmail(e) ==
  /\ Cardinality(AtSigns(e)) = 1
  /\ LET at == CHOOSE i \in AtSigns(e) : TRUE
     IN /\ at > 1
        /\ at + 1 < Len(e)
        /\ e[at + 1] # "."
        /\ e[Len(e)] # "."
        /\ \E j \in (at + 1)..Len(e) : e[j] = "."
        /\ \A j \in (at + 1)..(Len(e) - 1) : ~(e[j] = "." /\ e[j + 1] = ".")

NameRule(name) ==
  IF Len(name) < MinNameLength
    THEN <<"\"name\" length must be at least 3 characters long">>
    ELSE NoError

EmailRule(email) ==
  IF IsEmail(email) THEN NoError ELSE <<"\"email\" must be a valid email">>

\* useSchema: name and email required.
useSchema(body) ==
  IF body.name = Absent THEN <<"\"name\" is required">>
  ELSE IF NameRule(body.name) # NoError THEN NameRule(body.name)
  ELSE IF body.email = Absent THEN <<"\"email\" is required">>
  ELSE EmailRule(body.email)

\* updateUserSchema: both optional, at least one key.
updateUserSchema(body) ==
  IF body.name # Absent /\ NameRule(body.name) # NoError THEN NameRule(body.name)
  ELSE IF body.email # Absent /\ EmailRule(body.email) # NoError
    THEN EmailRule(body.email)
  ELSE IF body.name = Absent /\ body.email = Absent
    THEN <<"\"value\" must have at least 1 key">>
  ELSE NoError

(* ------------------------------ responses ------------------------------ *)

NoResponse ==
  [status |-> 0, message |-> Absent, error |-> Absent, stack |-> FALSE, rows |-> {}]

Json(status, rows) ==
  [status |-> status, message |-> Absent, error |-> Absent, stack |-> FALSE,
   rows |-> rows]

\* res.status(400).json({status: 400, message: error.details[0].message})
Rejected(message) ==
  [status |-> 400, message |-> message, error |-> Absent, stack |-> FALSE,
   rows |-> {}]

\* A middleware either answers the request itself or calls next().
validateUser(body) ==
  IF useSchema(body) # NoError
    THEN [next |-> FALSE, resp |-> Rejected(useSchema(body))]
    ELSE [next |-> TRUE, resp |-> NoResponse]

validateUpdateUser(body) ==
  IF updateUserSchema(body) # NoError
    THEN [next |-> FALSE, resp |-> Rejected(updateUserSchema(body))]
    ELSE [next |-> TRUE, resp |-> NoResponse]

\* Values of process.env.NODE_ENV, read by the error handler at each call.
Environments == {"production", "development"}

GenericMessage == <<"An unexpected error occurred!">>

\* status = err.status || 500; the message is the same for every error; the
\* error's own message and stack are added outside production.
errorHandler(err, env) ==
  [status |-> IF err.status # NoStatus THEN err.status ELSE 500,
   message |-> GenericMessage,
   error |-> IF env # "production" THEN err.message ELSE Absent,
   stack |-> env # "production",
   rows |-> {}]

(* ------------------------- path parameter :id -------------------------- *)

Digits == <<"0", "1", "2", "3", "4", "5", "6", "7", "8", "9">>

IsDigit(c) ==
  \E d \in DOMAIN Digits : Digits[d] = c

DigitValue(c) ==
  (CHOOSE d \in DOMAIN Digits : Digits[d] = c) - 1

RECURSIVE ToInt(_)
ToInt(s) ==
  IF s = <<>> THEN 0
  ELSE 10 * ToInt(SubSeq(s, 1, Len(s) - 1)) + DigitValue(s[Len(s)])

\* The id must be coerced to a positive integer: digits only, value > 0.
IsPositiveInt(s) ==
  /\ Len(s) > 0
  /\ \A i \in 1..Len(s) : IsDigit(s[i])
  /\ ToInt(s) > 0

(* ------------------------------- requests ------------------------------ *)

Request(op, idp, body) ==
  [op |-> op, idp |-> idp, body |-> body]

Idle == Request(None, NoId, EmptyBody)

\* One completed exchange.  handler: the route's handler was invoked;
\* queried: a statement was sent to the pool; nresp: responses written.
Exchange(req, handler, queried, nresp, resp) ==
  [req |-> req, handler |-> handler, queried |-> queried, nresp |-> nresp,
   resp |-> resp]

NoExchange == Exchange(Idle, FALSE, FALSE, 0, NoResponse)

FreeSlots == {s \in Slots : inflight[s] = Idle}

Creating == {s \in Slots : inflight[s].op = "create"}

(* -------------------------------- router ------------------------------- *)

\* The names inputValidator.js exports.
InputValidatorExports == {"validateUser", "validateUpdateUser"}

\* The names userRoutes.js imports from the controller.
ControllerExports ==
  {"createUser", "deleteUser", "getAllUsers", "getUserById", "updateUser"}

\* The middleware chain each route registers, by the names the route file
\* uses.
RouteChain(op) ==
  CASE op = "list" -> <<"getAllUsers">>
    [] op = "get" -> <<"getUserById">>
    [] op = "create" -> <<"validateUser", "createUser">>
    [] op = "update" -> <<"validateUpdadeUser", "updateUser">>
    [] op = "delete" -> <<"deleteUser">>

\* A name is bound to a function only if the module it is imported from
\* exports it.
IsBound(name) ==
  name \in InputValidatorExports \cup ControllerExports

\* A route serves requests only if every callback of its chain is bound: an
\* import of a name that is not exported does not link, and a route cannot
\* be registered with a callback that is not a function.
Installed(op) ==
  \A i \in DOMAIN RouteChain(op) : IsBound(RouteChain(op)[i])

\* The outcome of the validation middleware of a chain (the chain's
\* callbacks before its last), on a body.
Passed == [next |-> TRUE, resp |-> NoResponse]

Validation(op, body) ==
  LET chain == RouteChain(op)
  IN IF Len(chain) < 2 THEN Passed
     ELSE IF chain[1] = "validateUser" THEN validateUser(body)
     ELSE IF chain[1] = "validateUpdateUser" THEN validateUpdateUser(body)
     ELSE Passed

(* ------------------------------- handlers ------------------------------ *)

BadIdError == [status |-> 400, message |-> <<"Invalid id">>]

NotFoundError == [status |-> 404, message |-> <<"User not found">>]

TakesId(op) == op \in {"get", "update", "delete"}

\* The synchronous part of a handler: a malformed id is answered at once and
\* is not forwarded to storage; otherwise the handler calls its service and
\* awaits the pool.  The model stops accepting creates once the sequence
\* would pass MaxId.
Invoke(req) ==
  IF TakesId(req.op) /\ ~IsPositiveInt(req.idp)
    THEN /\ \E env \in Environments :
              last' = Exchange(req, TRUE, FALSE, 1, errorHandler(BadIdError, env))
         /\ UNCHANGED inflight
    ELSE /\ req.op = "create" => seq + Cardinality(Creating) <= MaxId
         /\ \E s \in FreeSlots : inflight' = [inflight EXCEPT ![s] = req]
         /\ UNCHANGED last

\* The rest of a handler, once its service has returned or thrown: a thrown
\* error goes to the error handler, an empty result of a by-id statement is
\* NotFound, and the row is answered otherwise.
Answer(req, r, success, env) ==
  IF r.threw THEN errorHandler(r.err, env)
  ELSE IF TakesId(req.op) /\ r.rows = {} THEN errorHandler(NotFoundError, env)
  ELSE Json(success, r.rows)

Complete(s, r, success) ==
  /\ \E env \in Environments :
       last' = Exchange(inflight[s], TRUE, TRUE, 1, Answer(inflight[s], r, success, env))
  /\ inflight' = [inflight EXCEPT ![s] = Idle]
  /\ users' = r.tbl

(* ------------------------------- actions ------------------------------- *)

\* A request arrives at its route.  What runs before the first await runs
\* without interruption: the validation middleware, then the handler up to
\* its call of the service.
Dispatch(req) ==
  IF ~Installed(req.op)
    THEN /\ last' = Exchange(req, FALSE, FALSE, 0, NoResponse)
         /\ UNCHANGED inflight
    ELSE IF ~Validation(req.op, req.body).next
      THEN /\ last' = Exchange(req, FALSE, FALSE, 1, Validation(req.op, req.body).resp)
           /\ UNCHANGED inflight
      ELSE Invoke(req)

\* router.get("/user", getAllUsers)
GetUsers ==
  /\ Dispatch(Request("list", NoId, EmptyBody))
  /\ UNCHANGED <<users, seq, issued, deleted>>

\* router.get("/user/:id", getUserById)
GetUser ==
  \E idp \in IdParams :
    /\ Dispatch(Request("get", idp, EmptyBody))
    /\ UNCHANGED <<users, seq, issued, deleted>>

\* router.post("/user", validateUser, createUser)
PostUser ==
  \E body \in Bodies :
    /\ Dispatch(Request("create", NoId, body))
    /\ UNCHANGED <<users, seq, issued, deleted>>

\* router.put("/user/:id", validateUpdadeUser, updateUser)
PutUser ==
  \E idp \in IdParams, body \in Bodies :
    /\ Dispatch(Request("update", idp, body))
    /\ UNCHANGED <<users, seq, issued, deleted>>

\* router.delete("/user/:id", deleteUser)
DeleteUser ==
  \E idp \in IdParams :
    /\ Dispatch(Request("delete", idp, EmptyBody))
    /\ UNCHANGED <<users, seq, issued, deleted>>

\* The pool answers a pending query; the statement takes effect atomically
\* and the handler that awaited it writes the response.
createUserReturns ==
  \E s \in Slots, now \in Timestamps :
    /\ inflight[s].op = "create"
    /\ LET req == inflight[s]
           r == createUserService(users, seq, req.body.name, req.body.email, now)
       IN /\ Complete(s, r, 201)
          /\ seq' = r.sq
          /\ issued' = IF r.threw THEN issued ELSE issued \cup {row.id : row \in r.rows}
    /\ UNCHANGED deleted

getAllUsersReturns ==
  \E s \in Slots :
    /\ inflight[s].op = "list"
    /\ Complete(s, getAllUsersService(users), 200)
    /\ UNCHANGED <<seq, issued, deleted>>

getUserByIdReturns ==
  \E s \in Slots :
    /\ inflight[s].op = "get"
    /\ Complete(s, getUserByIdService(users, ToInt(inflight[s].idp)), 200)
    /\ UNCHANGED <<seq, issued, deleted>>

updateUserReturns ==
  \E s \in Slots :
    /\ inflight[s].op = "update"
    /\ LET req == inflight[s]
       IN Complete(s, updateUserService(users, ToInt(req.idp), req.body.name,
                                        req.body.email), 200)
    /\ UNCHANGED <<seq, issued, deleted>>

deleteUserReturns ==
  \E s \in Slots :
    /\ inflight[s].op = "delete"
    /\ LET r == deleteUserService(users, ToInt(inflight[s].idp))
       IN /\ Complete(s, r, 200)
          /\ deleted' = deleted \cup {row.id : row \in r.rows}
    /\ UNCHANGED <<seq, issued>>

(* ---------------------------- specifications --------------------------- *)

Init ==
  /\ users = {}
  /\ seq = 1
  /\ inflight = [s \in Slots |-> Idle]
  /\ last = NoExchange
  /\ issued = {}
  /\ deleted = {}

\* The application as its route table is written.  No request reaches
\* updateUser, so updateUserService takes no step here.
Next ==
  \/ GetUsers
  \/ GetUser
  \/ PostUser
  \/ PutUser
  \/ DeleteUser
  \/ createUserReturns
  \/ getAllUsersReturns
  \/ getUserByIdReturns
  \/ deleteUserReturns

Spec == Init /\ [][Next]_vars

\* createUser and updateUser called directly, as a route whose validator
\* is bound would call them: with a body the validator accepts and, for
\* updateUser, a well-formed id.
createUserCalled ==
  \E body \in Bodies :
    /\ validateUser(body).next
    /\ Invoke(Request("create", NoId, body))
    /\ UNCHANGED <<users, seq, issued, deleted>>

updateUserCalled ==
  \E idp \in IdParams, body \in Bodies :
    /\ validateUpdateUser(body).next
    /\ IsPositiveInt(idp)
    /\ Invoke(Request("update", idp, body))
    /\ UNCHANGED <<users, seq, issued, deleted>>

NextHandlers ==
  \/ createUserCalled
  \/ updateUserCalled
  \/ createUserReturns
  \/ updateUserReturns

SpecHandlers == Init /\ [][NextHandlers]_vars

(* -------------------------------- claims ------------------------------- *)

\* The request in slot s is answered in this step.
Completes(s) ==
  inflight[s] # Idle /\ inflight'[s] = Idle

Answered(op) ==
  last.req.op = op /\ last.nresp > 0

\* C1: in every reachable state of the users table, whatever creates,
\* updates and deletes were requested and however they interleaved, no two
\* rows have the same email.
C1_EmailsUnique ==
  \A r1 \in users, r2 \in users : r1.email = r2.email => r1 = r2

\* Two users are stored, the second by the create answered last, while
\* another request is still in flight.
C1_Witness ==
  /\ Cardinality(users) = 2
  /\ Answered("create")
  /\ last.resp.status = 201
  /\ \E s \in Slots : inflight[s] # Idle

C3_NameOnlyUpdate ==
  [][\A s \in Slots :
       LET req == inflight[s]
           old == RowWithId(users, ToInt(req.idp))
       IN (/\ Completes(s)
           /\ req.op = "update"
           /\ req.body.name # Absent
           /\ req.body.email = Absent
           /\ old # {})
          => /\ last'.resp.status = 200
             /\ users' = (users \ old) \cup {[r EXCEPT !.name = req.body.name] : r \in old}]_vars

\* C4: an update that sets a user's email to the email another user holds is
\* answered 409, and no row changes.
C4_UpdateConflict ==
  [][\A s \in Slots :
       LET req == inflight[s]
           id == ToInt(req.idp)
       IN (/\ Completes(s)
           /\ req.op = "update"
           /\ req.body.email # Absent
           /\ RowWithId(users, id) # {}
           /\ EmailTaken(users, req.body.email, id))
          => (last'.resp.status = 409 /\ users' = users)]_vars

\* C5: a response of status 409 carries the message "Email already exists",
\* in production and outside it.
C5_ConflictMessage ==
  last.resp.status = 409 => last.resp.message = ConflictMessage

C7_BadIdRejected ==
  (last.req.op \in {"get", "update", "delete"})
    => IF IsPositiveInt(last.req.idp)
         THEN last.resp.rows = {} => last.resp.status = 404
         ELSE last.resp.status = 400 /\ ~last.queried

\* C8: an update with an empty body is answered 400; the handler is not
\* invoked and no statement is issued.
C8_EmptyUpdateRejected ==
  (last.req.op = "update" /\ last.req.body = EmptyBody)
    => (last.resp.status = 400 /\ ~last.handler /\ ~last.queried)

\* The rules the claim states for a valid create: a name of 3 or more
\* characters and a valid email.
ValidCreate(body) ==
  /\ body.name # Absent
  /\ Len(body.name) >= 3
  /\ body.email # Absent
  /\ IsEmail(body.email)

C10_ValidUpdateReachesHandler ==
  last.req.op = "update"
    => /\ last.nresp = 1
       /\ IF updateUserSchema(last.req.body) = NoError
            THEN last.handler
            ELSE ~last.handler /\ last.resp.status = 400

====
